---- MODULE Spec2Model ----
(***************************************************************************)
(* A model of cyc/datasets.py: the ProteinDataset class.                   *)
(*                                                                         *)
(* A protein sequence is a string; the only things the code does with one  *)
(* are take its length, hand it to the tokenizer and hand it back, so a    *)
(* sequence is modelled run-length encoded: [ch |-> c, n |-> k] is the     *)
(* string of k characters c.                                               *)
(*                                                                         *)
(* A table (a pandas DataFrame) is its set of column names and its rows in *)
(* order, a row being a function from column name to value.  A dict is the *)
(* sequence of its <<key, value>> items in insertion order, keys unique.   *)
(***************************************************************************)
EXTENDS Integers, Sequences, FiniteSets, TLC

VARIABLES pc, args, ds, ran, dir, last, calls

vars == <<pc, args, ds, ran, dir, last, calls>>

\* ------------------------------------------------------------------ bounds
MaxRows == 3
MaxAccessRows == 2
MaxCacheRows == 2
MaxRecords == 2
MaxNSamples == 2
MaxCalls == 2

\* ---------------------------------------------------------------- constants
MaxSeqLen == 1024

None == "None"

\* ------------------------------------------------------------------ values
SeqLengths == {10, 1024, 1025}
Seqs == {[ch |-> "M", n |-> k] : k \in SeqLengths}
StrLen(s) == s.n

\* Raw label values, in their sort order (numpy.unique and groupby sort).
LabelOrder == <<"A", "B", "C">>
RawLabels == {LabelOrder[i] : i \in DOMAIN LabelOrder}

\* -------------------------------------------------------------------- dicts
DictKeys(d) == {d[i][1] : i \in DOMAIN d}
DictHas(d, k) == k \in DictKeys(d)
DictGet(d, k) == d[CHOOSE i \in DOMAIN d : d[i][1] = k][2]
\* d[k] = v: an existing key keeps its place, a new one goes last.
DictSet(d, k, v) ==
    IF DictHas(d, k)
    THEN [i \in DOMAIN d |-> IF d[i][1] = k THEN <<k, v>> ELSE d[i]]
    ELSE Append(d, <<k, v>>)

RECURSIVE DictFromItems(_)
DictFromItems(items) ==
    IF items = <<>> THEN <<>>
    ELSE LET n == Len(items)
         IN  DictSet(DictFromItems(SubSeq(items, 1, n - 1)), items[n][1], items[n][2])

\* ------------------------------------------------------------------- tables
CsvColumns == {"seq", "label"}
FastxColumns == {"IDs", "SEQS"}

CsvRowsOver(labels) == {[seq |-> s, label |-> l] : s \in Seqs, l \in labels}
CsvRows == CsvRowsOver(RawLabels)

SeqsUpTo(S, n) == UNION {[1..k -> S] : k \in 0..n}

CsvTables(rows, n) == {[columns |-> CsvColumns, rows |-> r] : r \in SeqsUpTo(rows, n)}

Column(data, col) == [i \in DOMAIN data.rows |-> data.rows[i][col]]

\* --------------------------------------------------------- the length filter
FilterByLength_Strict(data, seq_column) ==
    [data EXCEPT !.rows = SelectSeq(data.rows, LAMBDA r : StrLen(r[seq_column]) < MaxSeqLen)]

FilterByLength(data, seq_column) ==
    [data EXCEPT !.rows = SelectSeq(data.rows, LAMBDA r : StrLen(r[seq_column]) <= MaxSeqLen)]

\* ------------------------------------------------------------------ groupby
\* The distinct values of a column, sorted.
RECURSIVE SortedLabels(_, _)
SortedLabels(vals, i) ==
    IF i > Len(LabelOrder) THEN <<>>
    ELSE (IF LabelOrder[i] \in vals THEN <<LabelOrder[i]>> ELSE <<>>)
         \o SortedLabels(vals, i + 1)

Unique(series) == SortedLabels({series[i] : i \in DOMAIN series}, 1)

Group(data, col, l) == SelectSeq(data.rows, LAMBDA r : r[col] = l)

GroupSizes(data, col) ==
    LET u == Unique(Column(data, col))
    IN  [i \in DOMAIN u |-> Len(Group(data, col, u[i]))]

\* ascending sort of a sequence of numbers
RECURSIVE SortAsc(_)
SortAsc(s) ==
    IF s = <<>> THEN <<>>
    ELSE LET m == CHOOSE i \in DOMAIN s : \A j \in DOMAIN s : s[i] <= s[j]
         IN  <<s[m]>> \o SortAsc(SubSeq(s, 1, m - 1) \o SubSeq(s, m + 1, Len(s)))

\* Twice the median of a non-empty sequence of numbers (the median of an even
\* count is the mean of the two middle values, a half-integer).
TwiceMedian(sizes) ==
    LET s == SortAsc(sizes)
        k == Len(s)
    IN  IF k % 2 = 1 THEN 2 * s[(k + 1) \div 2]
        ELSE s[k \div 2] + s[k \div 2 + 1]

MedianSamples_Ceil(data, label_column) ==
    (TwiceMedian(GroupSizes(data, label_column)) + 1) \div 2

\* int(data.groupby(label_column).size().median())
MedianSamples(data, label_column) ==
    TwiceMedian(GroupSizes(data, label_column)) \div 2

\* n rows of a group, drawn with replacement: every outcome.
PickN(group, n) ==
    {[i \in 1..n |-> group[p[i]]] : p \in [1..n -> DOMAIN group]}

RECURSIVE SampleGroups(_, _, _, _)
SampleGroups(data, col, labels, n) ==
    IF labels = <<>> THEN {<<>>}
    ELSE {h \o t : h \in PickN(Group(data, col, Head(labels)), n),
                   t \in SampleGroups(data, col, Tail(labels), n)}

\* without replacement a group gives at most its own rows
GroupSample_NoUpsample(data, col, n) ==
    LET u == Unique(Column(data, col))
        RECURSIVE Go(_)
        Go(labels) ==
            IF labels = <<>> THEN {<<>>}
            ELSE LET g == Group(data, col, Head(labels))
                     k == IF n < Len(g) THEN n ELSE Len(g)
                 IN  {h \o t : h \in PickN(g, k), t \in Go(Tail(labels))}
    IN  {[data EXCEPT !.rows = r] : r \in Go(u)}

\* data.groupby(col).sample(n=n, replace=True).reset_index(): every outcome.
\* Groups come in sorted key order; an empty table is returned as it is.
GroupSample(data, col, n) ==
    {[data EXCEPT !.rows = r] :
        r \in SampleGroups(data, col, Unique(Column(data, col)), n)}

\* ------------------------------------------------------- optional label map
NoneDict == [none |-> TRUE, items |-> <<>>]
Some(d) == [none |-> FALSE, items |-> d]

BuildLabelDict_FromOne(labels) ==
    LET label_list == Unique(labels)
    IN  [i \in DOMAIN label_list |-> <<label_list[i], i>>]

\* label_dict[label_list[i]] = i for i in range(len(label_list))
BuildLabelDict(labels) ==
    LET label_list == Unique(labels)
    IN  [i \in DOMAIN label_list |-> <<label_list[i], i - 1>>]

\* dict([(k, v) for v, k in d.items()])
InvertDict(d) == DictFromItems([i \in DOMAIN d |-> <<d[i][2], d[i][1]>>])

\* --------------------------------------------------------------- resampling
ResampleSteps_Both(nsamples) ==
    (IF nsamples # 0 THEN {"median"} ELSE {})
    \cup (IF nsamples > 0 THEN {"explicit"} ELSE {})

\* The steps of the constructor that run: `if nsamples == -1`, `if nsamples > 0`.
ResampleSteps(nsamples) ==
    (IF nsamples = -1 THEN {"median"} ELSE {})
    \cup (IF nsamples > 0 THEN {"explicit"} ELSE {})

\* data.groupby(col): by=None is a TypeError, an unknown column a KeyError.
GroupByStatus(data, col) ==
    IF col = None THEN "TypeError"
    ELSE IF col \notin data.columns THEN "KeyError"
    ELSE "ok"

\* The median step: the median of no group sizes is NaN, and int(NaN) raises.
MedianStep(data, col) ==
    IF GroupByStatus(data, col) # "ok"
    THEN {[status |-> GroupByStatus(data, col), data |-> data]}
    ELSE IF data.rows = <<>>
    THEN {[status |-> "ValueError", data |-> data]}
    ELSE {[status |-> "ok", data |-> d] :
            d \in GroupSample(data, col, MedianSamples(data, col))}

ExplicitStep(data, col, n) ==
    IF GroupByStatus(data, col) # "ok"
    THEN {[status |-> GroupByStatus(data, col), data |-> data]}
    ELSE {[status |-> "ok", data |-> d] : d \in GroupSample(data, col, n)}

\* The two `if` blocks in turn; ran is the set of steps that were entered.
Resample(data, col, nsamples) ==
    LET steps == ResampleSteps(nsamples)
        first == IF "median" \in steps
                 THEN {[status |-> r.status, data |-> r.data, ran |-> {"median"}] :
                         r \in MedianStep(data, col)}
                 ELSE {[status |-> "ok", data |-> data, ran |-> {}]}
    IN  UNION {IF r.status = "ok" /\ "explicit" \in steps
               THEN {[status |-> e.status, data |-> e.data,
                      ran |-> r.ran \cup {"explicit"}] :
                       e \in ExplicitStep(r.data, col, nsamples)}
               ELSE {r} : r \in first}

\* -------------------------------------------------------- label-map file
\* The directory cyc_id_maps: whether it exists, and its files by similarity
\* tag (cyc_label_id_map_{sim}.pickle), each holding a pickled dict.
PathExists(d, sim) == d.exists /\ sim \in DOMAIN d.files

SaveIdMap_Overwrite(d, save_id_map, sim, id2label) ==
    IF ~save_id_map THEN [status |-> "ok", dir |-> d]
    ELSE IF ~d.exists THEN [status |-> "FileNotFoundError", dir |-> d]
    ELSE [status |-> "ok",
          dir |-> [d EXCEPT !.files =
                     (sim :> id2label) @@ d.files]]

SaveIdMap(d, save_id_map, sim, id2label) ==
    IF ~save_id_map \/ PathExists(d, sim) THEN [status |-> "ok", dir |-> d]
    ELSE IF ~d.exists THEN [status |-> "FileNotFoundError", dir |-> d]
    ELSE [status |-> "ok",
          dir |-> [d EXCEPT !.files = (sim :> id2label) @@ d.files]]

\* ------------------------------------------------------------- constructor
NoObj ==
    [seqs |-> <<>>, labels |-> <<>>, hasLabels |-> FALSE,
     label_dict |-> NoneDict, id2label |-> <<>>, nu_labels |-> 0,
     return_seqs |-> FALSE]

\* ProteinDataset.__init__ from the label map on, the table `data` being
\* the filtered and resampled one.
InitLabels(a, data, d) ==
    LET o0 == [NoObj EXCEPT !.return_seqs = a.return_seqs,
                            !.label_dict = a.mapper]
    IN
    IF a.label_column # None /\ a.label_column \notin data.columns
    THEN [status |-> "KeyError", ds |-> o0, dir |-> d, ran |-> {}]
    ELSE
    LET labels == IF a.label_column # None
                  THEN Column(data, a.label_column) ELSE <<>>
        o1 == IF a.label_column # None
              THEN [o0 EXCEPT !.labels = labels,
                              !.hasLabels = TRUE,
                              !.nu_labels = Len(Unique(labels)),
                              !.label_dict =
                                 IF a.mapper.none
                                 THEN Some(BuildLabelDict(labels))
                                 ELSE a.mapper]
              ELSE o0
    IN
    IF o1.label_dict.none
    THEN [status |-> "AttributeError", ds |-> o1, dir |-> d, ran |-> {}]
    ELSE
    LET o2 == [o1 EXCEPT !.id2label = InvertDict(o1.label_dict.items)]
        saved == SaveIdMap(d, a.save_id_map, a.sim, o2.id2label)
    IN
    IF saved.status # "ok"
    THEN [status |-> saved.status, ds |-> o2, dir |-> d, ran |-> {}]
    ELSE IF a.seq_column \notin data.columns
    THEN [status |-> "KeyError", ds |-> o2, dir |-> saved.dir, ran |-> {}]
    ELSE [status |-> "ok",
          ds |-> [o2 EXCEPT !.seqs = Column(data, a.seq_column)],
          dir |-> saved.dir, ran |-> {}]

\* ProteinDataset.__init__: every outcome of a call with arguments a while
\* the directory is d.
InitOutcomes(a, d) ==
    LET filtered == IF a.seq_column \in a.table.columns
                    THEN FilterByLength(a.table, a.seq_column)
                    ELSE a.table
    IN  {IF r.status = "ok"
         THEN [InitLabels(a, r.data, d) EXCEPT !.ran = r.ran]
         ELSE [status |-> r.status,
               ds |-> [NoObj EXCEPT !.return_seqs = a.return_seqs],
               dir |-> d, ran |-> r.ran]
           : r \in Resample(filtered, a.label_column, a.nsamples)}

\* ---------------------------------------------------------------- from_fastx
\* A file name is the sequence of its characters.
FastaName == <<"s", ".", "f", "a", "s", "t", "a">>
FastqName == <<"r", ".", "f", "a", "s", "t", "q">>
ShortName == <<"s", ".", "f", "a">>
FastxNames == {FastaName, FastqName, ShortName}

\* fasta_filename[-5:]
FileSuffix(name) ==
    SubSeq(name, IF Len(name) > 5 THEN Len(name) - 4 ELSE 1, Len(name))

\* The format names SeqIO.parse accepts among those a suffix can give.
SeqIOFormats == {<<"f", "a", "s", "t", "a">>, <<"f", "a", "s", "t", "q">>}

FastxRecords == {[IDs |-> id, SEQS |-> s] : id \in {"A", "B"}, s \in Seqs}

NoFx == [used |-> FALSE, filename |-> <<>>, nsamples |-> 0]

DefaultSim == 40

\* The arguments from_fastx hands to the constructor.
FastxInitArgs(c) ==
    [table |-> [columns |-> FastxColumns, rows |-> c.records],
     label_column |-> c.label_column, seq_column |-> c.seq_column,
     nsamples |-> 0, return_seqs |-> TRUE, mapper |-> c.mapper,
     save_id_map |-> FALSE, sim |-> DefaultSim,
     fx |-> [used |-> TRUE, filename |-> c.filename, nsamples |-> c.nsamples]]

\* ------------------------------------------------------------- item access
NoSample == ("none" :> TRUE)

\* The tokenizer is the caller's: a deterministic function of the string.
Tokenize(s) == ("input_ids" :> s) @@ ("attention_mask" :> StrLen(s))

SeriesGet_Positional(series, idx) ==
    IF idx \in 0..(Len(series) - 1)
    THEN [status |-> "ok", at |-> idx + 1]
    ELSE IF idx < 0 /\ -idx <= Len(series)
    THEN [status |-> "ok", at |-> Len(series) + idx + 1]
    ELSE [status |-> "KeyError", at |-> 0]

\* series[idx] on a Series whose index is 0..n-1 after reset_index(): a
\* lookup by index label.  at is the 1-based position of the row found.
SeriesGet(series, idx) ==
    IF idx \in 0..(Len(series) - 1)
    THEN [status |-> "ok", at |-> idx + 1]
    ELSE [status |-> "KeyError", at |-> 0]

\* The sample dict: the encoding's fields, "label" when the object has
\* labels, "sequence" when return_seqs is set.
SampleOf(o, at, lab) ==
    LET enc == Tokenize(o.seqs[at])
        keys == DOMAIN enc
                \cup (IF o.hasLabels THEN {"label"} ELSE {})
                \cup (IF o.return_seqs THEN {"sequence"} ELSE {})
    IN  [k \in keys |->
           IF k = "sequence" /\ o.return_seqs THEN o.seqs[at]
           ELSE IF k = "label" /\ o.hasLabels THEN DictGet(o.label_dict.items, lab)
           ELSE enc[k]]

GetItemOutcome_ShiftedLabel(o, idx) ==
    LET g == SeriesGet(o.seqs, idx)
        lab == IF o.hasLabels /\ g.status = "ok"
               THEN o.labels[IF g.at < Len(o.labels) THEN g.at + 1 ELSE 1]
               ELSE None
    IN  IF g.status # "ok"
        THEN [status |-> g.status, tokenized |-> FALSE, sample |-> NoSample]
        ELSE IF o.hasLabels /\ ~DictHas(o.label_dict.items, lab)
        THEN [status |-> "KeyError", tokenized |-> TRUE, sample |-> NoSample]
        ELSE [status |-> "ok", tokenized |-> TRUE, sample |-> SampleOf(o, g.at, lab)]

\* ProteinDataset.__getitem__ on object o: the sequence is looked up, then
\* tokenized, then the label is looked up and mapped.
GetItemOutcome(o, idx) ==
    LET g == SeriesGet(o.seqs, idx)
        lab == IF o.hasLabels /\ g.status = "ok" THEN o.labels[g.at] ELSE None
    IN  IF g.status # "ok"
        THEN [status |-> g.status, tokenized |-> FALSE, sample |-> NoSample]
        ELSE IF o.hasLabels /\ ~DictHas(o.label_dict.items, lab)
        THEN [status |-> "KeyError", tokenized |-> TRUE, sample |-> NoSample]
        ELSE [status |-> "ok", tokenized |-> TRUE, sample |-> SampleOf(o, g.at, lab)]

\* ------------------------------------------------------------------ inputs
MapperBA == <<<<"B", 0>>, <<"A", 1>>>>
MapperA == <<<<"A", 0>>>>
MapperSame == <<<<"A", 0>>, <<"B", 0>>>>
Mappers == {NoneDict, Some(MapperBA), Some(MapperA), Some(MapperSame)}

NSamples == (-2)..MaxNSamples

Sims == {DefaultSim, 90}

\* Calls of the constructor on tables of up to MaxRows rows.
CtorArgs ==
    [table : CsvTables(CsvRows, MaxRows), label_column : {None, "label"},
     seq_column : {"seq", "sequence"}, nsamples : NSamples,
     return_seqs : {FALSE}, mapper : {NoneDict, Some(MapperBA)},
     save_id_map : {FALSE},
     sim : {DefaultSim}, fx : {NoFx}]

\* Calls of the constructor whose objects are then read.
AccessArgs ==
    [table : CsvTables(CsvRowsOver({"A", "B"}), MaxAccessRows), label_column : {None, "label"},
     seq_column : {"seq"}, nsamples : NSamples,
     return_seqs : BOOLEAN, mapper : Mappers, save_id_map : {FALSE},
     sim : {DefaultSim}, fx : {NoFx}]

FastxCalls ==
    [filename : FastxNames, records : SeqsUpTo(FastxRecords, MaxRecords),
     seq_column : {"SEQS"}, label_column : {None, "IDs"},
     nsamples : {0, -1, 1}, mapper : {NoneDict, Some(MapperBA)}]

\* Calls of the constructor in successive runs that share the directory.
CacheRows == {r \in CsvRowsOver({"A", "B"}) : StrLen(r.seq) = 10}
CacheArgs ==
    [table : CsvTables(CacheRows, MaxCacheRows),
     label_column : {"label"}, seq_column : {"seq", "sequence"},
     nsamples : {0}, return_seqs : {FALSE},
     mapper : {NoneDict, Some(MapperBA)}, save_id_map : BOOLEAN,
     sim : Sims, fx : {NoFx}]

\* ------------------------------------------------------------------- state
\* pc: "new" before any construction, then "ready" (an object was returned)
\*     or "failed" (the constructor raised).
\* args: the arguments of the last constructor call.
\* ds: the object's fields, as far as the constructor assigned them.
\* ran: the resampling steps the constructor entered.
\* dir: the directory cyc_id_maps.
\* last: the last operation and its result.
\* calls: how many times the tokenizer was invoked.
NoArgs ==
    [table |-> [columns |-> {}, rows |-> <<>>], label_column |-> None,
     seq_column |-> None, nsamples |-> 0, return_seqs |-> FALSE,
     mapper |-> NoneDict, save_id_map |-> FALSE, sim |-> DefaultSim,
     fx |-> NoFx]

Result(op, idx, status, value, tokenized, sample) ==
    [op |-> op, idx |-> idx, status |-> status, value |-> value,
     tokenized |-> tokenized, sample |-> sample]

EmptyDir == [exists |-> TRUE, files |-> <<>>]
MissingDir == [exists |-> FALSE, files |-> <<>>]

InitWith(dirs) ==
    /\ pc = "new"
    /\ args = NoArgs
    /\ ds = NoObj
    /\ ran = {}
    /\ dir \in dirs
    /\ last = Result("none", 0, "ok", 0, FALSE, NoSample)
    /\ calls = 0

Init == InitWith({EmptyDir})
InitCache == InitWith({EmptyDir, MissingDir})

\* One call ProteinDataset(...) with arguments a.
DoInit(a, op) ==
    \E o \in InitOutcomes(a, dir) :
        /\ pc' = IF o.status = "ok" THEN "ready" ELSE "failed"
        /\ args' = a
        /\ ds' = o.ds
        /\ ran' = o.ran
        /\ dir' = o.dir
        /\ last' = Result(op, 0, o.status, 0, FALSE, NoSample)
        /\ calls' = 0

Construct ==
    /\ pc = "new"
    /\ \E a \in CtorArgs : DoInit(a, "init")

ConstructForAccess ==
    /\ pc = "new"
    /\ \E a \in AccessArgs : DoInit(a, "init")

Reconstruct ==
    \E a \in CacheArgs : DoInit(a, "init")

\* ProteinDataset.from_fastx(...)
FromFastx ==
    /\ pc = "new"
    /\ \E c \in FastxCalls :
         IF FileSuffix(c.filename) \in SeqIOFormats
         THEN DoInit(FastxInitArgs(c), "from_fastx")
         ELSE /\ pc' = "failed"
              /\ args' = [NoArgs EXCEPT !.fx = [used |-> TRUE,
                                                filename |-> c.filename,
                                                nsamples |-> c.nsamples]]
              /\ last' = Result("from_fastx", 0, "ValueError", 0, FALSE, NoSample)
              /\ UNCHANGED <<ds, ran, dir, calls>>

\* len(dataset)
LenOp ==
    /\ pc = "ready"
    /\ last' = Result("len", 0, "ok", Len(ds.seqs), FALSE, NoSample)
    /\ UNCHANGED <<pc, args, ds, ran, dir, calls>>

GetItem_Caching ==
    /\ pc = "ready"
    /\ calls < MaxCalls
    /\ \E idx \in (-1)..Len(ds.seqs) :
         LET r == GetItemOutcome(ds, idx)
         IN  /\ last' = Result("getitem", idx, r.status, 0, r.tokenized, r.sample)
             /\ calls' = IF r.tokenized THEN calls + 1 ELSE calls
             /\ ds' = IF r.status = "ok"
                      THEN [ds EXCEPT !.seqs[idx + 1] = [ch |-> "X", n |-> 0]]
                      ELSE ds
    /\ UNCHANGED <<pc, args, ran, dir>>

\* dataset[idx]
GetItem ==
    /\ pc = "ready"
    /\ calls < MaxCalls
    /\ \E idx \in (-1)..Len(ds.seqs) :
         LET r == GetItemOutcome(ds, idx)
         IN  /\ last' = Result("getitem", idx, r.status, 0, r.tokenized, r.sample)
             /\ calls' = IF r.tokenized THEN calls + 1 ELSE calls
    /\ UNCHANGED <<pc, args, ds, ran, dir>>

NextConstruct == Construct
NextCache == Reconstruct
Next == ConstructForAccess \/ FromFastx \/ LenOp \/ GetItem

\* One object: constructed, then read.
Spec == Init /\ [][Next]_vars
\* The constructor alone, on larger tables.
SpecConstruct == Init /\ [][NextConstruct]_vars
\* Successive constructions over one directory.
SpecCache == InitCache /\ [][NextCache]_vars

\* ================================================================== claims
\* What the claims speak of, stated from the call's arguments and the
\* object's fields alone.
InputRows == args.table.rows
SeqOf(r) == r[args.seq_column]
LabelOf(r) == r[args.label_column]
\* the input rows whose sequence has at most 1024 characters, in input order
Survivors == SelectSeq(InputRows, LAMBDA r : SeqOf(r).n <= 1024)
SurvivorLabels == {LabelOf(Survivors[j]) : j \in DOMAIN Survivors}
SurvivorCount(l) == Cardinality({j \in DOMAIN Survivors : LabelOf(Survivors[j]) = l})
StoredCount(l) == Cardinality({i \in DOMAIN ds.labels : ds.labels[i] = l})
StoredLabels == {ds.labels[i] : i \in DOMAIN ds.labels}
\* every stored row is a copy of a surviving input row, sequence and label
StoredRowsAreSurvivors ==
    /\ Len(ds.labels) = Len(ds.seqs)
    /\ \A i \in DOMAIN ds.seqs :
         \E j \in DOMAIN Survivors :
            /\ SeqOf(Survivors[j]) = ds.seqs[i]
            /\ LabelOf(Survivors[j]) = ds.labels[i]
\* the k-th smallest surviving group size
OrderStat(k) ==
    CHOOSE v \in {SurvivorCount(l) : l \in SurvivorLabels} :
       /\ Cardinality({l \in SurvivorLabels : SurvivorCount(l) <= v}) >= k
       /\ Cardinality({l \in SurvivorLabels : SurvivorCount(l) < v}) < k
\* twice the median of the surviving group sizes
TwiceMedianOfSurvivors ==
    LET n == Cardinality(SurvivorLabels)
    IN  OrderStat((n + 1) \div 2) + OrderStat((n + 2) \div 2)

\* C1: after a construction from a table that has the sequence column no
\* stored sequence is longer than 1024 characters, whatever the sample
\* count; with sample count 0 the stored sequences are the input rows of
\* length <= 1024 in input order, so a table whose rows are all that short
\* keeps its length.
C1_LengthFilter ==
    (pc = "ready" /\ args.seq_column \in args.table.columns) =>
        /\ \A i \in DOMAIN ds.seqs : ds.seqs[i].n <= 1024
        /\ args.nsamples = 0 =>
             /\ ds.seqs = [j \in DOMAIN Survivors |-> SeqOf(Survivors[j])]
             /\ (\A j \in DOMAIN InputRows : SeqOf(InputRows[j]).n <= 1024)
                  => Len(ds.seqs) = Len(InputRows)

\* C1's case: of two rows, a long one and a short one, the short one is kept.
C1_Witness ==
    /\ pc = "ready"
    /\ args.nsamples = 0
    /\ Len(InputRows) = 2
    /\ SeqOf(InputRows[1]).n > 1024
    /\ SeqOf(InputRows[2]).n = 10
    /\ Len(ds.seqs) = 1

C3_ExplicitSampling ==
    (pc = "ready" /\ args.nsamples > 0) =>
        /\ StoredLabels = SurvivorLabels
        /\ \A l \in SurvivorLabels : StoredCount(l) = args.nsamples
        /\ StoredRowsAreSurvivors
        /\ Len(ds.seqs) = args.nsamples * Cardinality(SurvivorLabels)

\* C3's case: with n = 2 a group of one row is upsampled to two, beside a
\* group that had two.
C3_Witness ==
    /\ pc = "ready"
    /\ args.nsamples = 2
    /\ \E l \in SurvivorLabels : SurvivorCount(l) = 1 /\ StoredCount(l) = 2
    /\ \E l \in SurvivorLabels : SurvivorCount(l) = 2 /\ StoredCount(l) = 2

\* The round trips of a label map over a set of raw label values.
RoundTrips(values) ==
    /\ \A v \in values :
         /\ DictHas(ds.label_dict.items, v)
         /\ DictHas(ds.id2label, DictGet(ds.label_dict.items, v))
         /\ DictGet(ds.id2label, DictGet(ds.label_dict.items, v)) = v
    /\ \A i \in 0..(Cardinality(values) - 1) :
         /\ DictHas(ds.id2label, i)
         /\ DictHas(ds.label_dict.items, DictGet(ds.id2label, i))
         /\ DictGet(ds.label_dict.items, DictGet(ds.id2label, i)) = i

BuiltMap ==
    pc = "ready" /\ args.label_column # None /\ args.mapper.none

\* C4 as stated: the map built at construction round-trips every raw label
\* value of the input table.
C4_Original ==
    BuiltMap => RoundTrips({LabelOf(InputRows[j]) : j \in DOMAIN InputRows})

\* C4 amended: the map built at construction is a bijection between the raw
\* label values of the rows that survive the length filter and 0..k-1, k
\* their number: both round trips hold.
C4_LabelMapBijection ==
    BuiltMap =>
        /\ DictKeys(ds.label_dict.items) = SurvivorLabels
        /\ DictKeys(ds.id2label) = 0..(Cardinality(SurvivorLabels) - 1)
        /\ ds.nu_labels = Cardinality(SurvivorLabels)
        /\ RoundTrips(SurvivorLabels)

\* C4's case: two labels survive and a third is only on a dropped row.
C4_Witness ==
    /\ BuiltMap
    /\ Cardinality(SurvivorLabels) = 2
    /\ \E j \in DOMAIN InputRows : LabelOf(InputRows[j]) \notin SurvivorLabels
    /\ Len(ds.id2label) = 2

\* An item access that has just returned or raised.
Accessed == pc = "ready" /\ last.op = "getitem"
InRange(idx) == idx \in 0..(Len(ds.seqs) - 1)

\* C5: from_fastx on a FASTA file of two records, with no label column and
\* no label map, returns a dataset of length 2 with return_seqs on and no
\* resampling, whose items hold the record's sequence and no label.
C5_FastxNoLabels ==
    (/\ args.fx.used
     /\ args.fx.filename = FastaName
     /\ args.fx.nsamples = 0
     /\ args.label_column = None
     /\ args.mapper.none
     /\ Len(InputRows) = 2
     /\ \A j \in DOMAIN InputRows : InputRows[j].SEQS.n <= 1024) =>
        /\ pc = "ready"
        /\ Len(ds.seqs) = 2
        /\ ds.return_seqs
        /\ ran = {}
        /\ (last.op = "getitem" /\ InRange(last.idx)) =>
             /\ last.status = "ok"
             /\ "label" \notin DOMAIN last.sample
             /\ "sequence" \in DOMAIN last.sample
             /\ last.sample["sequence"] = InputRows[last.idx + 1].SEQS

\* C6 as stated: item access at every index in [0, length) succeeds, with a
\* built or an externally supplied label map alike.
C6_Original ==
    (Accessed /\ InRange(last.idx)) => last.status = "ok"

\* C6 amended: item access at an index in [0, length) whose stored raw label
\* is a key of the label map (every one is when the map was built at
\* construction) succeeds and returns the tokenizer's encoding of the stored
\* sequence, a "label" exactly when a label column was given, the map's
\* index of the raw label of that same stored row, and a "sequence", the
\* stored sequence, exactly when return_seqs is set.
C6_ItemAccess ==
    (Accessed /\ InRange(last.idx)) =>
        LET at == last.idx + 1
            labelled == args.label_column # None
            mapped == labelled => DictHas(ds.label_dict.items, ds.labels[at])
        IN  /\ (labelled /\ args.mapper.none) => mapped
            /\ last.status = "ok" <=> mapped
            /\ last.tokenized
            /\ mapped =>
                 /\ \A k \in DOMAIN Tokenize(ds.seqs[at]) :
                      /\ k \in DOMAIN last.sample
                      /\ last.sample[k] = Tokenize(ds.seqs[at])[k]
                 /\ "label" \in DOMAIN last.sample <=> labelled
                 /\ labelled =>
                      /\ last.sample["label"] =
                            DictGet(ds.label_dict.items, ds.labels[at])
                      /\ \E j \in DOMAIN Survivors :
                            /\ SeqOf(Survivors[j]) = ds.seqs[at]
                            /\ LabelOf(Survivors[j]) = ds.labels[at]
                 /\ "sequence" \in DOMAIN last.sample <=> args.return_seqs
                 /\ args.return_seqs => last.sample["sequence"] = ds.seqs[at]

\* C6's case: an access, under an external map, to a resampled dataset whose
\* rows differ in sequence and in label.
C6_Witness ==
    /\ Accessed
    /\ last.status = "ok"
    /\ last.idx = 1
    /\ ~args.mapper.none
    /\ args.label_column # None
    /\ args.return_seqs
    /\ args.nsamples = 1
    /\ ds.labels[1] # ds.labels[2]
    /\ ds.seqs[1] # ds.seqs[2]

\* C7: an item access with an index outside [0, length) raises instead of
\* returning a sample, without invoking the tokenizer and without changing
\* the dataset.
C7_OutOfRange ==
    [][(pc = "ready" /\ last'.op = "getitem"
        /\ last'.idx \notin 0..(Len(ds.seqs) - 1)) =>
          /\ last'.status = "KeyError"
          /\ ~last'.tokenized
          /\ last'.sample = NoSample
          /\ calls' = calls
          /\ ds' = ds]_vars

\* C7's case: index -1 raised on a dataset that has a row.
C7_Witness ==
    /\ Accessed
    /\ last.idx = -1
    /\ Len(ds.seqs) > 0
    /\ last.status = "KeyError"
    /\ calls = 0

\* C8: the file of a similarity tag is written only by a construction with
\* the save flag set that finds no file at the path; its content is that
\* construction's inverse label map; a file that exists is never changed.
C8_IdempotentCache ==
    [][/\ \A t \in DOMAIN dir.files :
            t \in DOMAIN dir'.files /\ dir'.files[t] = dir.files[t]
       /\ \A t \in DOMAIN dir'.files \ DOMAIN dir.files :
            /\ args'.save_id_map
            /\ args'.sim = t
            /\ dir'.files[t] = ds'.id2label
       /\ ~args'.save_id_map => dir' = dir]_vars

\* C8's case: a saving construction found the tag's file written by an
\* earlier one, with another map in it, and left it.
C8_Witness ==
    /\ args.save_id_map
    /\ pc = "ready"
    /\ args.sim \in DOMAIN dir.files
    /\ dir.files[args.sim] # ds.id2label
    /\ Len(ds.id2label) = 2

\* C9: length queries and item accesses leave the object as it is; the
\* length reported is that of the stored sequences; a second access to the
\* same valid index invokes the tokenizer again and returns an equal sample.
C9_ReadOnly ==
    [][last'.op \in {"len", "getitem"} =>
          /\ ds' = ds
          /\ pc' = pc /\ args' = args /\ dir' = dir
          /\ last'.op = "len" => last'.value = Len(ds.seqs)
          /\ (last'.op = "getitem" /\ last'.status = "ok") => calls' = calls + 1
          /\ (/\ last.op = "getitem" /\ last'.op = "getitem"
              /\ last.idx = last'.idx) =>
                last'.status = last.status /\ last'.sample = last.sample]_vars

\* C9's case: the one row of a dataset was accessed twice.
C9_Witness ==
    /\ Accessed
    /\ Len(ds.seqs) = 1
    /\ last.status = "ok"
    /\ calls = 2

\* C10: a construction enters the median step exactly when the sample count
\* is -1 and the explicit-count step exactly when it is > 0, so never both;
\* with any other sample count the filtered rows are stored as they are.
\* from_fastx passes sample count 0 whatever it was given.
C10_OneResampling ==
    pc # "new" =>
        /\ Cardinality(ran) <= 1
        /\ args.fx.used => ran = {}
        /\ ~args.fx.used =>
             /\ "median" \in ran <=> args.nsamples = -1
             /\ "explicit" \in ran <=> args.nsamples > 0
        /\ (pc = "ready" /\ (args.fx.used \/ (args.nsamples # -1 /\ args.nsamples <= 0))) =>
             /\ ds.seqs = [j \in DOMAIN Survivors |-> SeqOf(Survivors[j])]
             /\ args.label_column # None =>
                  ds.labels = [j \in DOMAIN Survivors |-> LabelOf(Survivors[j])]

\* C10's case: sample count -2, rows stored as filtered.
C10_Witness ==
    /\ pc = "ready"
    /\ args.nsamples = -2
    /\ ran = {}
    /\ Len(ds.seqs) = 2
    /\ Len(InputRows) = 2

====
